---- MODULE Spec2Model ----
(***************************************************************************)
(* Glue functions of the notebooks of srps/azure-intro-tensorflow:         *)
(*   4_gen_text_with_rnns.ipynb : tokenizer set-up, title_batch, decode,   *)
(*                                generate, generate_soft                  *)
(*   1_text_as_tensors.ipynb    : to_bow                                   *)
(* Strings are sequences of one-character strings.  Probabilities are      *)
(* exact fractions num / den; the float32/float64 rounding of TensorFlow   *)
(* and NumPy is not modelled.                                              *)
(***************************************************************************)
EXTENDS Integers, Sequences, FiniteSets, TLC

(* ----------------------------- bounds ---------------------------------- *)
MaxSize == 2          \* largest `size` argument of generate / generate_soft
MaxSeedLen == 1       \* longest seed string `start`
NumModels == 2        \* number of trained networks the model may be
MaxCalls == 2         \* calls of generate / generate_soft in one session
MaxBatch == 2         \* largest number of titles in a batch
MaxTitleLen == 2      \* longest title
MaxWords == 3         \* longest text passed to to_bow, in words
MaxSteps == 2         \* training steps of one model.fit epoch

(* --------------------------- small helpers ----------------------------- *)
RECURSIVE Pow(_, _)
Pow(x, n) == IF n = 0 THEN 1 ELSE x * Pow(x, n - 1)

\* the exact n-th root of a perfect n-th power
IRoot(x, n) == IF n = 1 THEN x ELSE CHOOSE r \in 0..x : Pow(r, n) = x

RECURSIVE SeqsUpTo(_, _)
SeqsUpTo(S, n) ==
  IF n = 0 THEN {<<>>}
  ELSE LET shorter == SeqsUpTo(S, n - 1)
       IN shorter \cup {Append(s, c) : s \in {t \in shorter : Len(t) = n - 1}, c \in S}

(* ------------------- notebook 4: tokenizer set-up ---------------------- *)
\* characters seen by tokenizer.fit_on_texts, most frequent first
FittedChars == <<"a", "b">>
\* characters a seed or a title may hold; "x" was never seen by the tokenizer
Alphabet == {"a", "b", "x"}
EOS == "<eos>"

\* Tokenizer(char_level=True,lower=False).fit_on_texts: ranks 1..n
fit_on_texts == [c \in {FittedChars[k] : k \in 1..Len(FittedChars)} |->
                   CHOOSE k \in 1..Len(FittedChars) : FittedChars[k] = c]

\* tokenizer.texts_to_sequences on one text: characters absent from
\* word_index are dropped (no oov_token)
texts_to_sequences(wi, text) ==
  LET F[k \in 0..Len(text)] ==
        IF k = 0 THEN <<>>
        ELSE IF text[k] \in DOMAIN wi THEN Append(F[k - 1], wi[text[k]])
             ELSE F[k - 1]
  IN F[Len(text)]

\* reverse_map = {val:key for key, val in tokenizer.word_index.items()}
ReverseOf(wi) == [t \in {wi[c] : c \in DOMAIN wi} |-> CHOOSE c \in DOMAIN wi : wi[c] = t]

\* a variant of decode that writes "?" for a token without an entry
decode_default(rm, x) ==
  LET F[k \in 0..Len(x)] ==
        IF k = 0 THEN <<>>
        ELSE IF x[k] \in DOMAIN rm THEN Append(F[k - 1], rm[x[k]])
             ELSE Append(F[k - 1], "?")
  IN F[Len(x)]

\* decode(x): ''.join of reverse_map.get(t,''); the result is the sequence of
\* the pieces joined (a token without an entry contributes nothing)
decode(rm, x) ==
  LET F[k \in 0..Len(x)] ==
        IF k = 0 THEN <<>>
        ELSE IF x[k] \in DOMAIN rm THEN Append(F[k - 1], rm[x[k]])
             ELSE F[k - 1]
  IN F[Len(x)]

(* ------------------- notebook 4: the trained network ------------------- *)
\* Output rows the network can emit, as integer weights of tokens
\* 0..vocab_size-1 (a row <<w0,w1,w2,w3>> is the distribution w_t / sum w).
Dists == << <<1, 1, 1, 1>>, <<0, 4, 4, 1>>, <<4, 0, 1, 4>>, <<4, 4, 4, 4>>,
            <<0, 0, 0, 4>>, <<1, 4, 4, 0>>, <<0, 4, 0, 0>>, <<4, 1, 0, 4>>,
            <<0, 1, 4, 4>> >>

RECURSIVE SumSeq(_)
SumSeq(s) == IF s = <<>> THEN 0 ELSE Head(s) + SumSeq(Tail(s))

RECURSIVE Hash(_)
Hash(s) == IF s = <<>> THEN 0 ELSE (3 * Hash(SubSeq(s, 1, Len(s) - 1)) + s[Len(s)] + 1) % 1000

\* model(one_hot(inp))[0][-1]: the distribution of the next token after the
\* last position of inp, a deterministic function of the weights m and of inp.
\* A distribution is [num, den]: token t has probability num[t] / den.
Net(m, inp, vs) ==
  LET w == Dists[((m + Hash(inp)) % Len(Dists)) + 1]
  IN [num |-> [t \in 0..(vs - 1) |-> w[t + 1]], den |-> SumSeq(w)]

\* a variant of argmax that may give any maximal index
argmax_any(out) ==
  {t \in DOMAIN out.num : \A u \in DOMAIN out.num : out.num[u] <= out.num[t]}

\* tf.argmax(out): the results the call can give (the first maximal index)
argmax(out) ==
  {t \in DOMAIN out.num : /\ \A u \in DOMAIN out.num : out.num[u] <= out.num[t]
                          /\ \A u \in DOMAIN out.num : u < t => out.num[u] < out.num[t]}

\* a variant of exp_log_div that multiplies by the temperature: out^T
exp_log_mul(out, temperature) ==
  [num |-> [t \in DOMAIN out.num |->
              IRoot(Pow(out.num[t], temperature.n), temperature.d)],
   den |-> IRoot(Pow(out.den, temperature.n), temperature.d)]

\* tf.exp(tf.math.log(out)/temperature): out^(1/T) with T = temperature.n /
\* temperature.d; log(0) = -inf and exp(-inf) = 0
exp_log_div(out, temperature) ==
  [num |-> [t \in DOMAIN out.num |->
              IRoot(Pow(out.num[t], temperature.d), temperature.n)],
   den |-> IRoot(Pow(out.den, temperature.d), temperature.n)]

RECURSIVE SumUpTo(_, _)
SumUpTo(f, k) == IF k < 0 THEN 0 ELSE SumUpTo(f, k - 1) + f[k]
\* np.sum(probs): the fraction num / den
np_sum(p) == [num |-> SumUpTo(p.num, Cardinality(DOMAIN p.num) - 1), den |-> p.den]

\* probs = probs/np.sum(probs): (num[t]/den) / (s.num/s.den)
normalise(p) ==
  [num |-> [t \in DOMAIN p.num |-> p.num[t] * np_sum(p).den],
   den |-> p.den * np_sum(p).num]

\* lines 533-534 of generate_soft
rescale(out, temperature) == normalise(exp_log_div(out, temperature))

\* np.argmax(np.random.multinomial(1,probs,1)): any index of non-zero
\* probability
multinomial(probs) == {t \in DOMAIN probs.num : probs.num[t] > 0}

(* ----------------------- notebook 4: title_batch ----------------------- *)
\* tf.one_hot(t, depth): 1 at index t, 0 elsewhere (all 0 when t is outside
\* 0..depth-1)
one_hot(t, depth) == [c \in 0..(depth - 1) |-> IF c = t THEN 1 ELSE 0]

RECURSIVE MaxLen(_)
MaxLen(seqs) ==
  IF seqs = <<>> THEN 0
  ELSE LET m == MaxLen(Tail(seqs))
       IN IF Len(Head(seqs)) > m THEN Len(Head(seqs)) ELSE m

\* a variant of pad_sequences that pads to the longest title there can be
pad_sequences_maxlen(seqs) ==
  [k \in 1..Len(seqs) |->
     [j \in 1..(MaxTitleLen - Len(seqs[k])) |-> 0] \o seqs[k]]

\* a variant of pad_sequences that puts the zeros behind (padding='post')
pad_sequences_post(seqs) ==
  [k \in 1..Len(seqs) |->
     seqs[k] \o [j \in 1..(MaxLen(seqs) - Len(seqs[k])) |-> 0]]

\* tf.keras.preprocessing.sequence.pad_sequences(z): every row is brought to
\* the length of the longest one with zeros in front (padding='pre')
pad_sequences(seqs) ==
  [k \in 1..Len(seqs) |->
     [j \in 1..(MaxLen(seqs) - Len(seqs[k])) |-> 0] \o seqs[k]]

\* a variant of shift_eos that shifts to the right
shift_eos_right(rows, eos) ==
  [k \in 1..Len(rows) |-> <<eos>> \o SubSeq(rows[k], 1, Len(rows[k]) - 1)]

\* tf.concat([z[:,1:],tf.constant(eos_token,shape=(len(z),1))],axis=1)
shift_eos(rows, eos) ==
  [k \in 1..Len(rows) |-> SubSeq(rows[k], 2, Len(rows[k])) \o <<eos>>]

\* tf.one_hot of a matrix of tokens
one_hot_rows(rows, depth) ==
  [k \in 1..Len(rows) |-> [j \in 1..Len(rows[k]) |-> one_hot(rows[k][j], depth)]]

\* keras.layers.Masking (mask_value 0): the mask of a timestep is True, the
\* timestep is used, when some feature of it differs from 0
compute_mask(v) == \E c \in DOMAIN v : v[c] # 0

(* ------------------------- notebook 1: to_bow -------------------------- *)
\* vectorizer.get_vocabulary(): '' and '[UNK]', then the adapted words
vocab == <<"", "[UNK]", "the", "dog">>
\* vocab_size = len(vocab), the vocab_size of notebook 1
bow_vocab_size == Len(vocab)
\* words a text may hold; "cat" is not in the vocabulary
Words == {"the", "The", "dog", "cat"}
\* the standardisation of TextVectorization: lower case
lower(w) == IF w = "The" THEN "the" ELSE w

\* vectorizer(text): the index of each word in the vocabulary, 1 ('[UNK]')
\* for a word that is not in it
vectorizer(t) ==
  [k \in 1..Len(t) |->
     IF \E n \in 1..Len(vocab) : vocab[n] = lower(t[k])
     THEN (CHOOSE n \in 1..Len(vocab) : vocab[n] = lower(t[k])) - 1
     ELSE 1]

RECURSIVE ColumnSum(_, _)
ColumnSum(rows, c) == IF rows = <<>> THEN 0 ELSE Head(rows)[c] + ColumnSum(Tail(rows), c)

RECURSIVE ColumnMax(_, _)
ColumnMax(rows, c) ==
  IF rows = <<>> THEN 0
  ELSE LET m == ColumnMax(Tail(rows), c)
       IN IF Head(rows)[c] > m THEN Head(rows)[c] ELSE m

\* a variant of reduce_sum that takes the maximum of each column
reduce_max(rows, depth) == [c \in 0..(depth - 1) |-> ColumnMax(rows, c)]

\* tf.reduce_sum(m, axis=0) of a matrix with `depth` columns
reduce_sum(rows, depth) == [c \in 0..(depth - 1) |-> ColumnSum(rows, c)]

(* ------------- embeddings notebook: pretrained embedding -------------- *)
\* matrices with `rows` rows and `cols` columns of small numbers
Matrix(rows, cols) == [1..rows -> [1..cols -> {0, 1}]]
\* what keyed_vectors.vectors may be: one row per word of Word2Vec
W2vMatrices == UNION {Matrix(r, c) : r \in 1..2, c \in 1..2}
NoLayer == [input_dim |-> 0, output_dim |-> 0, weights |-> <<>>, trainable |-> FALSE]
\* the values the weights of the Dense classifier take
DenseWeights == 0..1

\* a variant of gensim_to_keras_embedding that leaves the layer trainable
gensim_to_keras_embedding_trainable(keyed_vectors, train_embeddings) ==
  [input_dim |-> Len(keyed_vectors),
   output_dim |-> Len(keyed_vectors[1]),
   weights |-> keyed_vectors,
   trainable |-> TRUE]

\* def gensim_to_keras_embedding(keyed_vectors, train_embeddings=False):
\*   weights = keyed_vectors.vectors
\*   layer = keras.layers.Embedding(input_dim=weights.shape[0],
\*     output_dim=weights.shape[1], weights=[weights], trainable=train_embeddings)
gensim_to_keras_embedding(keyed_vectors, train_embeddings) ==
  [input_dim |-> Len(keyed_vectors),
   output_dim |-> Len(keyed_vectors[1]),
   weights |-> keyed_vectors,
   trainable |-> train_embeddings]

\* one optimizer step of model.fit on a layer: Keras applies the gradients to
\* the trainable weights only, w is what they become
apply_gradients(l, w) == IF l.trainable THEN [l EXCEPT !.weights = w] ELSE l

(* ------------- embeddings notebook: embedding-bag model --------------- *)
\* the trained weights of keras.layers.Embedding: one vector for each index
\* of the vocabulary, index 0 (padding) and 1 ('[UNK]') included
embedding_weights == << <<1, 2>>, <<0, 1>>, <<3, 0>>, <<2, 2>> >>

\* the vectorizer on a batch of texts: the indices of the words of each
\* text, filled with 0 behind up to the longest text of the batch
vectorizer_batch(texts) ==
  LET v == [k \in 1..Len(texts) |-> vectorizer(texts[k])]
  IN [k \in 1..Len(texts) |-> v[k] \o [j \in 1..(MaxLen(v) - Len(v[k])) |-> 0]]

\* keras.layers.Embedding on a matrix of indices
embedding(m) ==
  [k \in 1..Len(m) |-> [j \in 1..Len(m[k]) |-> embedding_weights[m[k][j] + 1]]]

\* tf.reduce_mean(x,axis=1) of the embedded batch e: for each text the mean
\* over all positions of its row, as the fraction sum / n
reduce_mean(e) ==
  [k \in 1..Len(e) |->
     [sum |-> [c \in 1..Len(embedding_weights[1]) |-> ColumnSum(e[k], c)],
      n |-> Len(e[k])]]

(* ------------- embeddings notebook: embedding matrix W ---------------- *)
\* the words Word2Vec may know; '' and '[UNK]' are not among them
W2vWords == {"the", "dog", "cat"}
\* w2v.get_vector as a table: a vector (one number here) for each known word
KeyedVectors == UNION {[ks -> {1, 2}] : ks \in SUBSET W2vWords}
\* np.zeros((VOCAB_SIZE,EMBED_SIZE)): one zero row for each vocabulary slot
np_zeros == [k \in 1..Len(vocab) |-> 0]

(* ------------------------------ state ---------------------------------- *)
VARIABLES
  word_index,   \* tokenizer.word_index
  reverse_map,  \* reverse_map
  vocab_size,   \* vocab_size
  eos_token,    \* eos_token
  model,        \* the weights of the trained generator network
  pc,           \* position in the running call
  fn,           \* "generate" or "generate_soft"
  size, start, temperature,   \* the arguments of the running call
  heap,         \* the list objects of the call: "o1" is the list returned by
                \* texts_to_sequences, "o2" the latest result of inp+[nc]
  inp, chars,   \* the list object each local name is bound to
  i,            \* the loop variable of `for i in range(size)`
  out, probs, nc,
  result,       \* the returned string
  calls,        \* number of model invocations of the running call
  sampled,      \* the tokens drawn by the running call, in order
  prev,         \* arguments and text of an earlier generate call, or NoCall
  session,      \* number of calls started since the notebook state of Init
  tb_pc,        \* position in title_batch
  x,            \* title_batch: the batch of titles
  z,            \* title_batch: the token lists, then the padded matrix
  tb_ret,       \* title_batch: the returned pair [a, b] of one-hot tensors
  bow_pc,       \* position in to_bow
  text,         \* to_bow: the text, a sequence of words
  ids,          \* to_bow: vectorizer(text)
  hot,          \* to_bow: tf.one_hot(vectorizer(text),vocab_size)
  bow,          \* to_bow: the returned vector
  emb_pc,       \* position in the cells that build and fit the Word2Vec model
  w2v,          \* w2v.vectors, the matrix of the loaded Word2Vec model
  train_embeddings,  \* the argument of gensim_to_keras_embedding
  layer,        \* the Embedding layer it returned
  dense,        \* the weights of the Dense layer of the same model
  emb_steps,    \* training steps done by model.fit
  pop_pc,       \* position in the cell that fills W
  get_vector,   \* w2v.get_vector: the vector of each word Word2Vec knows
  W,            \* W, one row per vocabulary slot
  pop_i,        \* i of `for i,w in enumerate(vocab)`
  found, not_found,
  bag_pc,       \* position in the forward pass of the embedding-bag model
  bag_x,        \* the minibatch of texts
  bag_ids,      \* output of the vectorizer
  bag_emb,      \* output of the Embedding layer
  bag_out,      \* output of the aggregation layer
  fit_pc,       \* position in model.fit(.., callbacks=[sampling_callback])
  epochs,       \* the epochs argument of model.fit
  steps_per_epoch,  \* number of batches of the training dataset
  epoch,        \* the running epoch, from 1
  step          \* training steps done in the running epoch

globals == <<word_index, reverse_map, vocab_size, eos_token, model>>
vars == <<word_index, reverse_map, vocab_size, eos_token, model, pc, fn, size,
          start, temperature, heap, inp, chars, i, out, probs, nc, result,
          calls, sampled, prev, session, tb_pc, x, z, tb_ret, bow_pc, text, ids,
          hot, bow, emb_pc, w2v, train_embeddings, layer, dense, emb_steps,
          pop_pc, get_vector, W, pop_i, found, not_found,
          bag_pc, bag_x, bag_ids, bag_emb, bag_out,
          fit_pc, epochs, steps_per_epoch, epoch, step>>
batchvars == <<tb_pc, x, z, tb_ret>>
bowvars == <<bow_pc, text, ids, hot, bow>>
genvars == <<pc, fn, size, start, temperature, heap, inp, chars, i, out, probs,
             nc, result, calls, sampled, prev, session>>
\* what the steps of generate and generate_soft do not touch
embvars == <<emb_pc, w2v, train_embeddings, layer, dense, emb_steps>>
\* the state of the other notebooks
popvars == <<pop_pc, get_vector, W, pop_i, found, not_found>>
bagvars == <<bag_pc, bag_x, bag_ids, bag_emb, bag_out>>
fitvars == <<fit_pc, epochs, steps_per_epoch, epoch, step>>
nbvars == <<embvars, popvars, bagvars, fitvars>>
others == <<batchvars, bowvars, nbvars>>

Models == 0..(NumModels - 1)
Sizes == 0..MaxSize
Seeds == SeqsUpTo(Alphabet, MaxSeedLen)
\* temperature T = n/d
Temperatures == {[n |-> 1, d |-> 2], [n |-> 1, d |-> 1], [n |-> 2, d |-> 1]}
One == [n |-> 1, d |-> 1]
NoOut == [num |-> <<>>, den |-> 1]
NoCall == [called |-> FALSE]
NoTensors == [a |-> <<>>, b |-> <<>>]

\* State after the cells that fit the tokenizer, add <eos>, train the model
\* and build reverse_map have run.
Init ==
  /\ eos_token = Len(FittedChars) + 1
  /\ word_index = [c \in DOMAIN fit_on_texts \cup {EOS} |->
                     IF c = EOS THEN Len(FittedChars) + 1 ELSE fit_on_texts[c]]
  /\ vocab_size = Len(FittedChars) + 2
  /\ reverse_map = ReverseOf([c \in DOMAIN fit_on_texts \cup {EOS} |->
                     IF c = EOS THEN Len(FittedChars) + 1 ELSE fit_on_texts[c]])
  /\ model \in Models
  /\ pc = "idle"
  /\ fn = "generate"
  /\ size = 0
  /\ start = <<>>
  /\ temperature = One
  /\ heap = [o \in {"o1", "o2"} |-> <<>>]
  /\ inp = "o1"
  /\ chars = "o1"
  /\ i = 0
  /\ out = NoOut
  /\ probs = NoOut
  /\ nc = 0
  /\ result = <<>>
  /\ calls = 0
  /\ sampled = <<>>
  /\ prev = NoCall
  /\ session = 0
  /\ tb_pc = "idle"
  /\ x = <<>>
  /\ z = <<>>
  /\ tb_ret = NoTensors
  /\ bow_pc = "idle"
  /\ text = <<>>
  /\ ids = <<>>
  /\ hot = <<>>
  /\ bow = <<>>
  /\ emb_pc = "idle"
  /\ w2v = <<>>
  /\ train_embeddings = FALSE
  /\ layer = NoLayer
  /\ dense = 0
  /\ emb_steps = 0
  /\ pop_pc = "idle"
  /\ get_vector = <<>>
  /\ W = <<>>
  /\ pop_i = 0
  /\ found = 0
  /\ not_found = 0
  /\ bag_pc = "idle"
  /\ bag_x = <<>>
  /\ bag_ids = <<>>
  /\ bag_emb = <<>>
  /\ bag_out = <<>>
  /\ fit_pc = "idle"
  /\ epochs = 0
  /\ steps_per_epoch = 0
  /\ epoch = 0
  /\ step = 0

(* ------------------ generate / generate_soft, by line ------------------ *)
\* a variant of Call that extends the seed of the call before it
Call_shared(f, sz, st, temp) ==
  /\ pc = "idle"
  /\ session < MaxCalls
  /\ pc' = "for"
  /\ fn' = f
  /\ size' = sz
  /\ start' = st
  /\ temperature' = temp
  /\ heap' = [o \in {"o1", "o2"} |->
                IF o = "o1" THEN texts_to_sequences(word_index, start \o st)
                ELSE <<>>]
  /\ inp' = "o1"
  /\ chars' = "o1"
  /\ i' = 0
  /\ out' = NoOut
  /\ probs' = NoOut
  /\ nc' = 0
  /\ result' = <<>>
  /\ calls' = 0
  /\ sampled' = <<>>
  /\ session' = session + 1
  /\ UNCHANGED <<others, globals, prev>>

\* def generate(model,size,start) / generate_soft(model,size,start,temperature):
\*   inp = tokenizer.texts_to_sequences([start])[0]
\*   chars = inp
Call(f, sz, st, temp) ==
  /\ pc = "idle"
  /\ session < MaxCalls
  /\ pc' = "for"
  /\ fn' = f
  /\ size' = sz
  /\ start' = st
  /\ temperature' = temp
  /\ heap' = [o \in {"o1", "o2"} |->
                IF o = "o1" THEN texts_to_sequences(word_index, st) ELSE <<>>]
  /\ inp' = "o1"
  /\ chars' = "o1"
  /\ i' = 0
  /\ out' = NoOut
  /\ probs' = NoOut
  /\ nc' = 0
  /\ result' = <<>>
  /\ calls' = 0
  /\ sampled' = <<>>
  /\ session' = session + 1
  /\ UNCHANGED <<others, globals, prev>>

CallGenerate == \E sz \in Sizes, st \in Seeds : Call("generate", sz, st, One)

CallGenerateSoft ==
  \E sz \in Sizes, st \in Seeds, temp \in Temperatures :
    Call("generate_soft", sz, st, temp)

\* a variant of ForNext that runs one iteration too many
ForNext_inclusive ==
  /\ pc = "for"
  /\ i <= size
  /\ pc' = "invoke"
  /\ UNCHANGED <<others, globals, prev, session, fn, size, start, temperature, heap, inp, chars, i,
                 out, probs, nc, result, calls, sampled>>

\* for i in range(size): one more iteration
ForNext ==
  /\ pc = "for"
  /\ i < size
  /\ pc' = "invoke"
  /\ UNCHANGED <<others, globals, prev, session, fn, size, start, temperature, heap, inp, chars, i,
                 out, probs, nc, result, calls, sampled>>

\* for i in range(size): exhausted
ForEnd ==
  /\ pc = "for"
  /\ ~(i < size)
  /\ pc' = "return"
  /\ UNCHANGED <<others, globals, prev, session, fn, size, start, temperature, heap, inp, chars, i,
                 out, probs, nc, result, calls, sampled>>

\* out = model(tf.expand_dims(tf.one_hot(inp,vocab_size),0))[0][-1]
Invoke ==
  /\ pc = "invoke"
  /\ heap[inp] # <<>>
  /\ out' = Net(model, heap[inp], vocab_size)
  /\ calls' = calls + 1
  /\ pc' = "sample"
  /\ UNCHANGED <<others, globals, prev, session, fn, size, start, temperature, heap, inp, chars, i,
                 probs, nc, result, sampled>>

\* a variant of InvokeRaises that also fails on a one-token list
InvokeRaises_short ==
  /\ pc = "invoke"
  /\ Len(heap[inp]) <= 1
  /\ calls' = calls + 1
  /\ pc' = "raised"
  /\ UNCHANGED <<others, globals, prev, session, fn, size, start, temperature, heap, inp, chars, i,
                 out, probs, nc, result, sampled>>

\* the same line on an empty token list: the output has no time step, so
\* [-1] is out of range and the exception leaves the call
InvokeRaises ==
  /\ pc = "invoke"
  /\ heap[inp] = <<>>
  /\ calls' = calls + 1
  /\ pc' = "raised"
  /\ UNCHANGED <<others, globals, prev, session, fn, size, start, temperature, heap, inp, chars, i,
                 out, probs, nc, result, sampled>>

\* generate: nc = tf.argmax(out)
SampleGreedy ==
  /\ pc = "sample"
  /\ fn = "generate"
  /\ \E t \in argmax(out) :
       /\ nc' = t
       /\ sampled' = Append(sampled, t)
  /\ pc' = "test"
  /\ UNCHANGED <<others, globals, prev, session, fn, size, start, temperature, heap, inp, chars, i,
                 out, probs, result, calls>>

\* generate_soft:
\*   probs = tf.exp(tf.math.log(out)/temperature).numpy().astype(np.float64)
\*   probs = probs/np.sum(probs)
\*   nc = np.argmax(np.random.multinomial(1,probs,1))
SampleSoft ==
  /\ pc = "sample"
  /\ fn = "generate_soft"
  /\ probs' = rescale(out, temperature)
  /\ \E t \in multinomial(rescale(out, temperature)) :
       /\ nc' = t
       /\ sampled' = Append(sampled, t)
  /\ pc' = "test"
  /\ UNCHANGED <<others, globals, prev, session, fn, size, start, temperature, heap, inp, chars, i,
                 out, result, calls>>

\* if nc==eos_token: break
Break ==
  /\ pc = "test"
  /\ nc = eos_token
  /\ pc' = "return"
  /\ UNCHANGED <<others, globals, prev, session, fn, size, start, temperature, heap, inp, chars, i,
                 out, probs, nc, result, calls, sampled>>

\* a variant of NoBreak without the test of nc
NoBreak_always ==
  /\ pc = "test"
  /\ pc' = "append"
  /\ UNCHANGED <<others, globals, prev, session, fn, size, start, temperature, heap, inp, chars, i,
                 out, probs, nc, result, calls, sampled>>

\* nc is not eos_token: fall through to the append
NoBreak ==
  /\ pc = "test"
  /\ nc # eos_token
  /\ pc' = "append"
  /\ UNCHANGED <<others, globals, prev, session, fn, size, start, temperature, heap, inp, chars, i,
                 out, probs, nc, result, calls, sampled>>

\* a variant of ListAppend that inserts at the front of the list
ListAppend_front ==
  /\ pc = "append"
  /\ heap' = [heap EXCEPT ![chars] = <<nc>> \o heap[chars]]
  /\ pc' = "concat"
  /\ UNCHANGED <<others, globals, prev, session, fn, size, start, temperature, inp, chars, i, out,
                 probs, nc, result, calls, sampled>>

\* chars.append(nc): mutates the list object chars is bound to, in place
ListAppend ==
  /\ pc = "append"
  /\ heap' = [heap EXCEPT ![chars] = Append(heap[chars], nc)]
  /\ pc' = "concat"
  /\ UNCHANGED <<others, globals, prev, session, fn, size, start, temperature, inp, chars, i, out,
                 probs, nc, result, calls, sampled>>

\* inp = inp+[nc]: a new list object, bound to inp; end of the iteration
ListConcat ==
  /\ pc = "concat"
  /\ heap' = [heap EXCEPT !["o2"] = heap[inp] \o <<nc>>]
  /\ inp' = "o2"
  /\ i' = i + 1
  /\ pc' = "for"
  /\ UNCHANGED <<others, globals, prev, session, fn, size, start, temperature, chars, out, probs, nc,
                 result, calls, sampled>>

\* return decode(chars)
Return ==
  /\ pc = "return"
  /\ result' = decode(reverse_map, heap[chars])
  /\ pc' = "done"
  /\ UNCHANGED <<others, globals, prev, session, fn, size, start, temperature, heap, inp, chars, i,
                 out, probs, nc, calls, sampled>>

\* the call is over (returned or raised): its frame, with inp, chars and the
\* other locals, is dropped
Exit ==
  /\ pc \in {"done", "raised"}
  /\ pc' = "idle"
  /\ heap' = [o \in {"o1", "o2"} |-> <<>>]
  /\ inp' = "o1"
  /\ chars' = "o1"
  /\ i' = 0
  /\ out' = NoOut
  /\ probs' = NoOut
  /\ nc' = 0
  /\ result' = <<>>
  /\ calls' = 0
  /\ sampled' = <<>>
  /\ UNCHANGED <<others, globals, prev, session, fn, size, start, temperature>>

Next ==
  \/ CallGenerate
  \/ CallGenerateSoft
  \/ ForNext
  \/ ForEnd
  \/ Invoke
  \/ InvokeRaises
  \/ SampleGreedy
  \/ SampleSoft
  \/ Break
  \/ NoBreak
  \/ ListAppend
  \/ ListConcat
  \/ Return
  \/ Exit

Spec == Init /\ [][Next]_vars

\* The interpreter runs a started call on to its end; nothing obliges the
\* user to start a call.
Step ==
  \/ ForNext \/ ForEnd \/ Invoke \/ InvokeRaises \/ SampleGreedy \/ SampleSoft
  \/ Break \/ NoBreak \/ ListAppend \/ ListConcat \/ Return \/ Exit

FairSpec == Spec /\ WF_vars(Step)

\* Two greedy calls side by side: a finished generate call is kept in prev
\* and compared with a later one.
Remember ==
  /\ pc = "done"
  /\ fn = "generate"
  /\ prev' = [called |-> TRUE, model |-> model, size |-> size, start |-> start,
              text |-> result]
  /\ UNCHANGED <<others, globals, session, pc, fn, size, start, temperature, heap, inp,
                 chars, i, out, probs, nc, result, calls, sampled>>

NextGreedy ==
  \/ CallGenerate
  \/ ForNext
  \/ ForEnd
  \/ Invoke
  \/ InvokeRaises
  \/ SampleGreedy
  \/ Break
  \/ NoBreak
  \/ ListAppend
  \/ ListConcat
  \/ Return
  \/ Exit
  \/ Remember

SpecGreedy == Init /\ [][NextGreedy]_vars

(* ----------------------- title_batch, by line ------------------------- *)
Titles == SeqsUpTo(Alphabet, MaxTitleLen)
Batches == {b \in SeqsUpTo(Titles, MaxBatch) : b # <<>>}

\* def title_batch(x): one batch of ds_train.batch(..) is passed in;
\*   x = [t.numpy().decode('utf-8') for t in x]
TitleBatchCall ==
  /\ tb_pc = "idle"
  /\ \E b \in Batches : x' = b
  /\ z' = <<>>
  /\ tb_ret' = NoTensors
  /\ tb_pc' = "tokenize"
  /\ UNCHANGED <<globals, genvars, nbvars, bowvars>>

\* z = tokenizer.texts_to_sequences(x)
TitleBatchTokenize ==
  /\ tb_pc = "tokenize"
  /\ z' = [k \in 1..Len(x) |-> texts_to_sequences(word_index, x[k])]
  /\ tb_pc' = "pad"
  /\ UNCHANGED <<globals, genvars, nbvars, bowvars, x, tb_ret>>

\* z = tf.keras.preprocessing.sequence.pad_sequences(z)
TitleBatchPad ==
  /\ tb_pc = "pad"
  /\ z' = pad_sequences(z)
  /\ tb_pc' = "return"
  /\ UNCHANGED <<globals, genvars, nbvars, bowvars, x, tb_ret>>

\* return tf.one_hot(z,vocab_size), tf.one_hot(tf.concat([z[:,1:],
\*   tf.constant(eos_token,shape=(len(z),1))],axis=1),vocab_size)
TitleBatchReturn ==
  /\ tb_pc = "return"
  /\ tb_ret' = [a |-> one_hot_rows(z, vocab_size),
                b |-> one_hot_rows(shift_eos(z, eos_token), vocab_size)]
  /\ tb_pc' = "done"
  /\ UNCHANGED <<globals, genvars, nbvars, bowvars, x, z>>

\* the pair has been handed to Dataset.map; the next batch can come
TitleBatchExit ==
  /\ tb_pc = "done"
  /\ tb_pc' = "idle"
  /\ x' = <<>>
  /\ z' = <<>>
  /\ tb_ret' = NoTensors
  /\ UNCHANGED <<globals, genvars, nbvars, bowvars>>

NextBatch ==
  \/ TitleBatchCall
  \/ TitleBatchTokenize
  \/ TitleBatchPad
  \/ TitleBatchReturn
  \/ TitleBatchExit

SpecBatch == Init /\ [][NextBatch]_vars

(* -------------------------- to_bow, by step ---------------------------- *)
Texts == SeqsUpTo(Words, MaxWords)

\* def to_bow(text):
ToBowCall ==
  /\ bow_pc \in {"idle", "done"}
  /\ \E t \in Texts : text' = t
  /\ ids' = <<>>
  /\ hot' = <<>>
  /\ bow' = <<>>
  /\ bow_pc' = "vectorize"
  /\ UNCHANGED <<globals, genvars, nbvars, batchvars>>

\* vectorizer(text)
ToBowVectorize ==
  /\ bow_pc = "vectorize"
  /\ ids' = vectorizer(text)
  /\ bow_pc' = "one_hot"
  /\ UNCHANGED <<globals, genvars, nbvars, batchvars, text, hot, bow>>

\* tf.one_hot(vectorizer(text),vocab_size)
ToBowOneHot ==
  /\ bow_pc = "one_hot"
  /\ hot' = [k \in 1..Len(ids) |-> one_hot(ids[k], bow_vocab_size)]
  /\ bow_pc' = "reduce_sum"
  /\ UNCHANGED <<globals, genvars, nbvars, batchvars, text, ids, bow>>

\* return tf.reduce_sum(..., axis=0)
ToBowReduceSum ==
  /\ bow_pc = "reduce_sum"
  /\ bow' = reduce_sum(hot, bow_vocab_size)
  /\ bow_pc' = "done"
  /\ UNCHANGED <<globals, genvars, nbvars, batchvars, text, ids, hot>>

NextBow ==
  \/ ToBowCall
  \/ ToBowVectorize
  \/ ToBowOneHot
  \/ ToBowReduceSum

SpecBow == Init /\ [][NextBow]_vars

(* ------------- pretrained embedding layer and its training ------------- *)
\* w2v = api.load('word2vec-google-news-300')
W2vLoad ==
  /\ emb_pc = "idle"
  /\ \E m \in W2vMatrices : w2v' = m
  /\ emb_pc' = "loaded"
  /\ UNCHANGED <<globals, genvars, batchvars, bowvars, fitvars, popvars, bagvars, train_embeddings, layer,
                 dense, emb_steps>>

\* model = keras.models.Sequential([vectorizer,
\*   gensim_to_keras_embedding(w2v,train_embeddings=..), .., Dense]); compile
EmbeddingModelBuild ==
  /\ emb_pc = "loaded"
  /\ \E te \in BOOLEAN :
       /\ train_embeddings' = te
       /\ layer' = gensim_to_keras_embedding(w2v, te)
  /\ dense' = 0
  /\ emb_steps' = 0
  /\ emb_pc' = "fit"
  /\ UNCHANGED <<globals, genvars, batchvars, bowvars, fitvars, popvars, bagvars, w2v>>

\* model.fit(..): one training step on a minibatch
EmbeddingFitStep ==
  /\ emb_pc = "fit"
  /\ emb_steps < MaxSteps
  /\ \E d \in DenseWeights : dense' = d
  /\ \E w \in Matrix(layer.input_dim, layer.output_dim) :
       layer' = apply_gradients(layer, w)
  /\ emb_steps' = emb_steps + 1
  /\ UNCHANGED <<globals, genvars, batchvars, bowvars, fitvars, popvars, bagvars, emb_pc, w2v, train_embeddings>>

\* model.fit returns
EmbeddingFitReturn ==
  /\ emb_pc = "fit"
  /\ emb_pc' = "done"
  /\ UNCHANGED <<globals, genvars, batchvars, bowvars, fitvars, popvars, bagvars, w2v, train_embeddings, layer,
                 dense, emb_steps>>

NextEmbed ==
  \/ W2vLoad
  \/ EmbeddingModelBuild
  \/ EmbeddingFitStep
  \/ EmbeddingFitReturn

SpecEmbed == Init /\ [][NextEmbed]_vars

(* ------------------------------ claims --------------------------------- *)
SeedTokens == texts_to_sequences(word_index, start)
InCall == pc \notin {"idle", "done", "raised"}
EosSampled == sampled # <<>> /\ sampled[Len(sampled)] = eos_token
\* the tokens drawn before the first end-of-sequence token
BeforeEos ==
  IF EosSampled THEN SubSeq(sampled, 1, Len(sampled) - 1) ELSE sampled

\* C1: whenever the model is about to be invoked, the token list passed to
\* it is the seed tokens followed by the tokens sampled so far, each once and
\* in order, and equals the generated list chars.
C1_InputIsSeedPlusSampled ==
  pc = "invoke" =>
    /\ heap[inp] = SeedTokens \o sampled
    /\ heap[inp] = heap[chars]

\* C2: a call invokes the model at most `size` times; once the end-of-sequence
\* token is sampled there is no further invocation or append; a call that
\* returns does so at the first sampled end-of-sequence token or after `size`
\* steps; and every started call ends.
C2_Terminates ==
  /\ [](calls <= size /\ Len(sampled) <= calls)
  /\ [][(InCall /\ EosSampled) =>
          /\ calls' = calls
          /\ heap'[chars'] = heap[chars]
          /\ pc' \in {"return", "done"}]_vars
  /\ [](pc = "done" =>
          /\ calls = Len(sampled)
          /\ \A k \in 1..(Len(sampled) - 1) : sampled[k] # eos_token
          /\ EosSampled \/ calls = size)
  /\ (pc = "for" ~> pc \in {"done", "raised"})

C2_Witness ==
  /\ pc = "done" /\ fn = "generate_soft"
  /\ EosSampled /\ calls < size

\* C3: the list generate_soft decodes on return is the seed tokens followed
\* by the tokens sampled before the first end-of-sequence token, in order and
\* once each; it is at most len(seed tokens) + size long and is the seed
\* tokens when size = 0.
C3_ReturnedTokens ==
  (pc = "done" /\ fn = "generate_soft") =>
    /\ heap[chars] = SeedTokens \o BeforeEos
    /\ result = decode(reverse_map, SeedTokens \o BeforeEos)
    /\ Len(heap[chars]) <= Len(SeedTokens) + size
    /\ size = 0 => heap[chars] = SeedTokens

C3_Witness ==
  /\ pc = "done" /\ fn = "generate_soft"
  /\ Len(sampled) = 2 /\ sampled[1] # sampled[2] /\ ~EosSampled

\* C4: no token the loop appends to chars is the end-of-sequence token, and
\* the returned text holds no '<eos>' piece.
C4_EosNeverAppended ==
  /\ \A k \in 1..Len(heap[chars]) : heap[chars][k] # eos_token
  /\ \A k \in 1..Len(result) : result[k] # EOS

C4_Witness ==
  /\ pc = "done" /\ EosSampled /\ Len(sampled) >= 2

\* C5: the distribution generate_soft samples from is p_i^(1/T) / sum_j
\* p_j^(1/T): its values are non-negative and sum to 1, a token of probability
\* 0 keeps probability 0 and is not sampled, and for T = 1 it equals p.
C5_Rescaled ==
  (pc = "test" /\ fn = "generate_soft") =>
    /\ DOMAIN probs.num = DOMAIN out.num
    /\ probs.den > 0
    /\ \A t \in DOMAIN probs.num : probs.num[t] >= 0
    /\ SumUpTo(probs.num, vocab_size - 1) = probs.den
    /\ \A t \in DOMAIN probs.num : out.num[t] = 0 => probs.num[t] = 0
    /\ out.num[nc] > 0
    /\ temperature = One =>
         \A t \in DOMAIN probs.num : probs.num[t] * out.den = out.num[t] * probs.den
    /\ \A t, u \in DOMAIN probs.num :
         Pow(probs.num[t], temperature.n) * Pow(out.num[u], temperature.d)
           = Pow(probs.num[u], temperature.n) * Pow(out.num[t], temperature.d)

C5_Witness ==
  /\ pc = "test" /\ fn = "generate_soft"
  /\ temperature # One
  /\ \E t, u \in DOMAIN out.num :
       out.num[t] = 0 /\ out.num[u] > 0 /\ out.num[u] < out.num[nc]

\* C6: a step of a call leaves word_index, reverse_map, vocab_size, eos_token
\* and the model as they were, and a call starts from the encoding of its own
\* seed whatever the calls before it built.
C6_Pure ==
  [][/\ (InCall \/ InCall') =>
          UNCHANGED <<word_index, reverse_map, vocab_size, eos_token, model>>
     /\ (~InCall /\ InCall') =>
          /\ heap'[inp'] = texts_to_sequences(word_index, start')
          /\ heap'[chars'] = texts_to_sequences(word_index, start')]_vars

C6_Witness ==
  /\ pc = "for" /\ i = 0 /\ fn = "generate_soft"
  /\ session = 2 /\ start # <<>>

\* C7 as stated: no call of generate_soft fails.
C7_NeverFails == ~(pc = "raised" /\ fn = "generate_soft")

\* C7 as amended: generate_soft fails only when the seed encodes to no token
\* and size >= 1; with a seed that has a character of the vocabulary, or
\* with size = 0, the call completes and returns a string.
C7_FailsOnlyOnEmptyEncoding ==
  /\ []((pc = "raised" /\ fn = "generate_soft") => (SeedTokens = <<>> /\ size >= 1))
  /\ ((pc = "for" /\ fn = "generate_soft" /\ (SeedTokens # <<>> \/ size = 0))
        ~> (pc = "done" /\ fn = "generate_soft" /\ result \in Seq(Alphabet \cup {EOS})))

C7_Witness ==
  /\ pc = "done" /\ fn = "generate_soft"
  /\ Len(SeedTokens) = 1 /\ calls = 2

\* C8: the token the greedy generate appends has maximal probability in the
\* model's output for the current input, and two generate calls with the same
\* model, size and seed return the same text.
C8_GreedyDeterministic ==
  /\ (fn = "generate" /\ pc = "append") =>
       /\ out = Net(model, heap[inp], vocab_size)
       /\ \A u \in DOMAIN out.num : out.num[u] <= out.num[nc]
  /\ (/\ pc = "done" /\ fn = "generate" /\ prev # NoCall
      /\ prev.model = model /\ prev.size = size /\ prev.start = start)
       => result = prev.text

C8_Witness ==
  /\ pc = "done" /\ fn = "generate" /\ prev # NoCall
  /\ prev.model = model /\ prev.size = size /\ prev.start = start
  /\ Len(sampled) = 2 /\ calls = 2
  /\ \E u \in DOMAIN out.num : u # nc /\ out.num[u] = out.num[nc]

\* the token length of the longest title of the batch
BatchLen == MaxLen([k \in 1..Len(x) |-> texts_to_sequences(word_index, x[k])])
EosVector == [c \in 0..(vocab_size - 1) |-> IF c = eos_token THEN 1 ELSE 0]
ShiftedByOne(L) ==
  /\ Len(tb_ret.a) = Len(x)
  /\ Len(tb_ret.b) = Len(x)
  /\ \A k \in 1..Len(x) :
       /\ Len(tb_ret.a[k]) = L
       /\ Len(tb_ret.b[k]) = L
       /\ \A j \in 1..L : DOMAIN tb_ret.a[k][j] = 0..(vocab_size - 1)
       /\ \A j \in 1..(L - 1) : tb_ret.b[k][j] = tb_ret.a[k][j + 1]
       /\ tb_ret.b[k][L] = EosVector

\* C9 as stated: for every batch the input and the target have the same
\* shape, with L columns, each target row is the input row shifted left by
\* one, and its last column is the end-of-sequence token.
C9_ShiftedEveryBatch == tb_pc = "done" => ShiftedByOne(Len(tb_ret.a[1]))

\* C9 as amended: the same for every batch in which some title has at least
\* one character of the vocabulary (L >= 1, L the longest token length).
C9_ShiftedByOne ==
  (tb_pc = "done" /\ BatchLen >= 1) => ShiftedByOne(BatchLen)

C9_Witness ==
  /\ tb_pc = "done" /\ Len(x) = 2 /\ BatchLen = 2
  /\ Len(texts_to_sequences(word_index, x[2])) = 1
  /\ tb_ret.a[1][1] # tb_ret.a[1][2]

Occurrences(s, v) == Cardinality({k \in 1..Len(s) : s[k] = v})

\* C10: to_bow returns a vector of length vocab_size whose element i is the
\* number of occurrences of token index i in the tokenized text; its elements
\* sum to the number of tokens of the text.
C10_BagOfWords ==
  bow_pc = "done" =>
    /\ DOMAIN bow = 0..(bow_vocab_size - 1)
    /\ \A c \in 0..(bow_vocab_size - 1) : bow[c] = Occurrences(vectorizer(text), c)
    /\ SumUpTo(bow, bow_vocab_size - 1) = Len(text)

C10_Witness ==
  /\ bow_pc = "done" /\ Len(text) = 3
  /\ text[1] = "The" /\ text[2] = "cat" /\ text[3] = "the"
  /\ bow[2] = 2

(* ------------------ filling the embedding matrix W -------------------- *)
\* W = np.zeros((VOCAB_SIZE,EMBED_SIZE)); vocab = vectorizer.get_vocabulary()
\* found, not_found = 0,0
PopulateStart ==
  /\ pop_pc = "idle"
  /\ \E kv \in KeyedVectors : get_vector' = kv
  /\ W' = np_zeros
  /\ pop_i' = 0
  /\ found' = 0
  /\ not_found' = 0
  /\ pop_pc' = "for"
  /\ UNCHANGED <<globals, genvars, batchvars, bowvars, fitvars, bagvars, embvars>>

\* for i,w in enumerate(vocab): try: W[i] = w2v.get_vector(w); found+=1
PopulateTry ==
  /\ pop_pc = "for"
  /\ pop_i < Len(vocab)
  /\ vocab[pop_i + 1] \in DOMAIN get_vector
  /\ W' = [W EXCEPT ![pop_i + 1] = get_vector[vocab[pop_i + 1]]]
  /\ found' = found + 1
  /\ pop_i' = pop_i + 1
  /\ UNCHANGED <<globals, genvars, batchvars, bowvars, fitvars, bagvars, embvars, pop_pc, get_vector,
                 not_found>>

\* w2v.get_vector(w) raises KeyError for a word Word2Vec does not know
PopulateTryRaises ==
  /\ pop_pc = "for"
  /\ pop_i < Len(vocab)
  /\ vocab[pop_i + 1] \notin DOMAIN get_vector
  /\ pop_pc' = "except"
  /\ UNCHANGED <<globals, genvars, batchvars, bowvars, fitvars, bagvars, embvars, get_vector, W, pop_i,
                 found, not_found>>

\* a variant of PopulateExcept that lets the exception leave the cell
PopulateExcept_reraise ==
  /\ pop_pc = "except"
  /\ pop_pc' = "raised"
  /\ UNCHANGED <<globals, genvars, batchvars, bowvars, fitvars, bagvars, embvars, get_vector, W, pop_i,
                 found, not_found>>

\* except: not_found+=1   (the exception is dropped, the loop goes on)
PopulateExcept ==
  /\ pop_pc = "except"
  /\ not_found' = not_found + 1
  /\ pop_i' = pop_i + 1
  /\ pop_pc' = "for"
  /\ UNCHANGED <<globals, genvars, batchvars, bowvars, fitvars, bagvars, embvars, get_vector, W, found>>

\* the loop has gone through vocab; the cell prints found and not_found
PopulateEnd ==
  /\ pop_pc = "for"
  /\ pop_i = Len(vocab)
  /\ pop_pc' = "done"
  /\ UNCHANGED <<globals, genvars, batchvars, bowvars, fitvars, bagvars, embvars, get_vector, W, pop_i,
                 found, not_found>>

NextPopulate ==
  \/ PopulateStart
  \/ PopulateTry
  \/ PopulateTryRaises
  \/ PopulateExcept
  \/ PopulateEnd

SpecPopulate == Init /\ [][NextPopulate]_vars

(* ------------- model.fit with the sampling callback ------------------- *)
\* the defaults of generate(model,size=100,start='Today '): the largest size
\* and a seed of known characters
DefaultSize == MaxSize
DefaultStart == <<"a">>

\* model.fit(ds_train.batch(8).map(title_batch_fn),
\*           callbacks=[sampling_callback],epochs=3)
FitCall ==
  /\ fit_pc = "idle"
  /\ pc = "idle"
  /\ session = 0
  /\ \E e \in 1..MaxCalls : epochs' = e
  /\ \E n \in 1..MaxSteps : steps_per_epoch' = n
  /\ epoch' = 1
  /\ step' = 0
  /\ fit_pc' = "train"
  /\ UNCHANGED <<globals, genvars, batchvars, bowvars, embvars, popvars, bagvars>>

\* fit: one training step on the next batch changes the weights
TrainStep ==
  /\ fit_pc = "train"
  /\ step < steps_per_epoch
  /\ \E m \in Models : model' = m
  /\ step' = step + 1
  /\ UNCHANGED <<word_index, reverse_map, vocab_size, eos_token, genvars, batchvars,
                 bowvars, embvars, popvars, bagvars, fit_pc, epochs,
                 steps_per_epoch, epoch>>

\* a variant of EpochEnd that runs the callback after any batch
EpochEnd_batch ==
  /\ fit_pc = "train"
  /\ step >= 1
  /\ fit_pc' = "callback"
  /\ UNCHANGED <<globals, genvars, batchvars, bowvars, embvars, popvars, bagvars,
                 epochs, steps_per_epoch, epoch, step>>

\* fit: the batches of the epoch are used up, the on_epoch_end of
\* sampling_callback is called
EpochEnd ==
  /\ fit_pc = "train"
  /\ step = steps_per_epoch
  /\ fit_pc' = "callback"
  /\ UNCHANGED <<globals, genvars, batchvars, bowvars, embvars, popvars, bagvars,
                 epochs, steps_per_epoch, epoch, step>>

\* on_epoch_end = lambda batch, logs: print(generate(model))  -- the call
CallbackGenerate ==
  /\ fit_pc = "callback"
  /\ Call("generate", DefaultSize, DefaultStart, One)

\* print(..) of the returned text; the lambda returns and fit goes on with
\* the next epoch, or returns after the last one
CallbackReturn ==
  /\ fit_pc = "callback"
  /\ pc = "done"
  /\ pc' = "idle"
  /\ heap' = [o \in {"o1", "o2"} |-> <<>>]
  /\ inp' = "o1"
  /\ chars' = "o1"
  /\ i' = 0
  /\ out' = NoOut
  /\ probs' = NoOut
  /\ nc' = 0
  /\ result' = <<>>
  /\ calls' = 0
  /\ sampled' = <<>>
  /\ IF epoch = epochs
     THEN fit_pc' = "done" /\ UNCHANGED <<epoch, step>>
     ELSE fit_pc' = "train" /\ epoch' = epoch + 1 /\ step' = 0
  /\ UNCHANGED <<globals, batchvars, bowvars, embvars, popvars, bagvars, prev,
                 session, fn, size, start, temperature, epochs, steps_per_epoch>>

NextFit ==
  \/ FitCall
  \/ TrainStep
  \/ EpochEnd
  \/ CallbackGenerate
  \/ ForNext
  \/ ForEnd
  \/ Invoke
  \/ SampleGreedy
  \/ Break
  \/ NoBreak
  \/ ListAppend
  \/ ListConcat
  \/ Return
  \/ CallbackReturn

SpecFit == Init /\ [][NextFit]_vars

(* --------------- forward pass of the embedding-bag model --------------- *)
\* the texts of a minibatch, each a sequence of words
BagTexts == SeqsUpTo({"the", "dog"}, MaxWords)
BagBatches == {b \in SeqsUpTo(BagTexts, MaxBatch) : b # <<>>}

\* the model is applied to one minibatch of the batched dataset
BagCall ==
  /\ bag_pc = "idle"
  /\ \E b \in BagBatches : bag_x' = b
  /\ bag_pc' = "vectorizer"
  /\ UNCHANGED <<globals, genvars, batchvars, bowvars, fitvars, embvars, popvars, bag_ids,
                 bag_emb, bag_out>>

\* vectorizer,
BagVectorize ==
  /\ bag_pc = "vectorizer"
  /\ bag_ids' = vectorizer_batch(bag_x)
  /\ bag_pc' = "embedding"
  /\ UNCHANGED <<globals, genvars, batchvars, bowvars, fitvars, embvars, popvars, bag_x,
                 bag_emb, bag_out>>

\* keras.layers.Embedding(VOCAB_SIZE + 1,EMBEDDING_DIMS),
BagEmbedding ==
  /\ bag_pc = "embedding"
  /\ bag_emb' = embedding(bag_ids)
  /\ bag_pc' = "lambda"
  /\ UNCHANGED <<globals, genvars, batchvars, bowvars, fitvars, embvars, popvars, bag_x,
                 bag_ids, bag_out>>

\* keras.layers.Lambda(lambda x: tf.reduce_mean(x,axis=1)),
BagReduceMean ==
  /\ bag_pc = "lambda"
  /\ bag_out' = reduce_mean(bag_emb)
  /\ bag_pc' = "done"
  /\ UNCHANGED <<globals, genvars, batchvars, bowvars, fitvars, embvars, popvars, bag_x,
                 bag_ids, bag_emb>>

\* the output goes on to the Dense layer; the next minibatch can come
BagExit ==
  /\ bag_pc = "done"
  /\ bag_pc' = "idle"
  /\ bag_x' = <<>>
  /\ bag_ids' = <<>>
  /\ bag_emb' = <<>>
  /\ bag_out' = <<>>
  /\ UNCHANGED <<globals, genvars, batchvars, bowvars, fitvars, embvars, popvars>>

NextBag ==
  \/ BagCall
  \/ BagVectorize
  \/ BagEmbedding
  \/ BagReduceMean
  \/ BagExit

SpecBag == Init /\ [][NextBag]_vars

(* C11: the embedding layer built by gensim_to_keras_embedding with
   train_embeddings=False is frozen: before, between and after the training
   steps of model.fit its weight matrix is the Word2Vec matrix, no training
   step changes it while the Dense weights do change, and its input_dim and
   output_dim are the numbers of rows and columns of the Word2Vec matrix. *)
C11_Frozen ==
  (emb_pc \in {"fit", "done"} /\ ~train_embeddings) =>
    /\ layer.weights = w2v
    /\ layer.input_dim = Len(w2v)
    /\ layer.output_dim = Len(w2v[1])

\* two training steps have changed the Dense weights of a model whose
\* embedding was built with train_embeddings=False
C11_Witness ==
  /\ emb_pc = "done"
  /\ ~train_embeddings
  /\ emb_steps = 2
  /\ dense # 0
  /\ Len(w2v) = 2
  /\ Len(w2v[1]) = 1

\* the vocabulary slots whose word Word2Vec knows, among the first n
KnownSlots(n) == {k \in 1..n : vocab[k] \in DOMAIN get_vector}

(* C12, as stated: no exception raised by a library call is caught and
   suppressed by repository code; in the cell that fills W, an exception of
   w2v.get_vector always leaves the cell. *)
C12_NoneSuppressed == [][pop_pc = "except" => pop_pc' = "raised"]_vars

(* C12, amended: the loop that fills W catches every exception of
   w2v.get_vector: the cell never ends with an exception, not_found counts
   the vocabulary words Word2Vec does not know, found the others, the row
   of a known word is its vector and the row of an unknown word stays 0. *)
C12_LoopSuppresses ==
  /\ pop_pc # "raised"
  /\ pop_pc \in {"for", "except", "done"} =>
       /\ found = Cardinality(KnownSlots(pop_i))
       /\ not_found = pop_i - found
       /\ \A k \in 1..Len(vocab) :
            W[k] = IF k \in KnownSlots(pop_i) THEN get_vector[vocab[k]] ELSE 0
  /\ pop_pc = "done" => pop_i = Len(vocab)

\* the loop has ended after it caught the exception for some words and
\* stored the vector of others
C12_Witness == pop_pc = "done" /\ not_found >= 2 /\ found >= 1

\* number of generation steps whose token went into chars
StepsKept == IF EosSampled THEN calls - 1 ELSE size

(* C13, as stated: the returned text has one character more than the seed
   for every generation step: `size` more when all steps ran without
   end-of-sequence, k-1 more when the call stopped at step k on
   end-of-sequence. *)
C13_OneCharPerStep ==
  pc = "done" => Len(result) = Len(start) + StepsKept

(* C13, amended: one token per step. The decoded list has one token more
   than the encoded seed for every generation step (size more without
   end-of-sequence, k-1 more when the call stopped at step k), and the
   returned text has one character for each of these tokens except the
   sampled tokens 0, which have no character. *)
C13_OneTokenPerStep ==
  pc = "done" =>
    /\ Len(heap[chars]) = Len(SeedTokens) + StepsKept
    /\ Len(result) = Len(SeedTokens) + StepsKept - Occurrences(BeforeEos, 0)
    /\ \A k \in 1..Len(result) : result[k] \in {FittedChars[n] : n \in 1..Len(FittedChars)}

\* a call that ran both steps without end-of-sequence and drew token 0 once:
\* two tokens more than the seed, one character more
C13_Witness ==
  /\ pc = "done" /\ size = 2 /\ calls = 2 /\ ~EosSampled
  /\ Occurrences(sampled, 0) = 1
  /\ Len(result) = Len(start) + 1

\* the tokens of title k of the batch
TitleTokens(k) == texts_to_sequences(word_index, x[k])

(* C14: in every batch title_batch returns, for every title with a
   character (the shorter ones too), the title's last character is in the
   last column of the input, the target of that column is end-of-sequence,
   and the padding of the row lies before the title's first character, so
   no padding position separates the last character from its target. *)
C14_EosAfterLastChar ==
  tb_pc = "done" =>
    \A k \in 1..Len(x) :
      TitleTokens(k) # <<>> =>
        LET n == Len(TitleTokens(k))
            L == Len(tb_ret.a[k])
        IN /\ L = BatchLen
           /\ tb_ret.a[k][L] = one_hot(TitleTokens(k)[n], vocab_size)
           /\ tb_ret.b[k][L] = EosVector
           /\ \A j \in 1..L : z[k][j] = 0 <=> j <= L - n

\* a batch with a title shorter than the longest one
C14_Witness ==
  /\ tb_pc = "done"
  /\ Len(x) = 2
  /\ Len(TitleTokens(1)) = 1
  /\ Len(TitleTokens(2)) = 2
  /\ z[1][1] = 0

(* C15: the Masking layer ignores the padded part of every title: in the
   input tensor title_batch returns, every padded position is an all-zero
   feature vector and is masked, and every position of a real character is
   not masked. *)
C15_PaddingMasked ==
  tb_pc = "done" =>
    \A k \in 1..Len(x) :
      \A j \in 1..Len(tb_ret.a[k]) :
        IF j <= Len(tb_ret.a[k]) - Len(TitleTokens(k))
        THEN /\ \A c \in DOMAIN tb_ret.a[k][j] : tb_ret.a[k][j][c] = 0
             /\ ~compute_mask(tb_ret.a[k][j])
        ELSE compute_mask(tb_ret.a[k][j])

(* C16: padding is done per minibatch: title_batch gets one batch of the
   dataset, and every row of the padded matrix and of the input tensor is as
   long as the longest title of that batch, in tokens, however long the
   longest title of the dataset is; all rows of a batch are equally long. *)
C16_PaddedPerBatch ==
  /\ tb_pc \in {"return", "done"} =>
       \A k \in 1..Len(x) : Len(z[k]) = BatchLen
  /\ tb_pc = "done" =>
       /\ Len(tb_ret.a) = Len(x)
       /\ \A k \in 1..Len(x) : Len(tb_ret.a[k]) = BatchLen
       /\ \A k, l \in 1..Len(x) : Len(tb_ret.b[k]) = Len(tb_ret.b[l])

\* a batch padded to 1 token, less than the longest title of the dataset
C16_Witness ==
  /\ tb_pc = "done"
  /\ \E t \in Titles : Len(texts_to_sequences(word_index, t)) > 1
  /\ Len(x) = 2
  /\ TitleTokens(1) = <<>>
  /\ BatchLen = 1
  /\ Len(tb_ret.a[1]) = 1

\* temperature S is below temperature T
Below(S, T) == S.n * T.d < T.n * S.d
\* the tokens the network finds most likely
MostLikely == {m \in DOMAIN out.num : \A t \in DOMAIN out.num : out.num[m] >= out.num[t]}

(* C17: temperature rescaling keeps the order of the probabilities (a token
   at least as likely as another before rescaling is so after it), and it
   sharpens as the temperature falls: the rescaled probability of a most
   likely token under the temperature of the call is at least the one under
   any higher temperature. *)
C17_OrderAndSharpening ==
  (pc = "test" /\ fn = "generate_soft") =>
    /\ \A t, u \in DOMAIN out.num :
         out.num[t] >= out.num[u] => probs.num[t] >= probs.num[u]
    /\ \A T \in Temperatures :
         Below(temperature, T) =>
           \A m \in MostLikely :
             probs.num[m] * rescale(out, T).den
               >= rescale(out, T).num[m] * probs.den

\* a call at temperature 1/2 on an output with a less likely token that is
\* still possible: a most likely token has gained over T = 1, the other lost
C17_Witness ==
  /\ pc = "test" /\ fn = "generate_soft"
  /\ temperature = [n |-> 1, d |-> 2]
  /\ \E m \in MostLikely, u \in DOMAIN out.num :
       /\ out.num[u] > 0 /\ out.num[u] < out.num[m]
       /\ probs.num[m] * out.den > out.num[m] * probs.den
       /\ probs.num[u] * out.den < out.num[u] * probs.den

\* the sum of the embedding vectors of the words of a text
OwnSum(t) ==
  [c \in 1..Len(embedding_weights[1]) |->
     ColumnSum([j \in 1..Len(t) |-> embedding_weights[vectorizer(t)[j] + 1]], c)]

(* C18: the aggregation layer of the embedding-bag classifier outputs, for
   each text of a minibatch that has a word, the average of the embedding
   vectors of the n tokens of that text (sum / n), whatever the other texts
   of the minibatch are. *)
C18_AverageOfOwnTokens ==
  bag_pc = "done" =>
    \A k \in 1..Len(bag_x) :
      bag_x[k] # <<>> =>
        \A c \in 1..Len(embedding_weights[1]) :
          bag_out[k].sum[c] * Len(bag_x[k]) = OwnSum(bag_x[k])[c] * bag_out[k].n

(* C19: the sampling callback generates one sample per epoch: when a fit of
   E epochs has returned generate was called E times; the k-th call starts
   when all training steps of epoch k are done and runs before any step of
   epoch k+1; a training step is taken only while no call of generate is
   running. *)
C19_OneSamplePerEpoch ==
  /\ [](fit_pc = "done" => session = epochs /\ pc = "idle")
  /\ [](fit_pc = "train" => pc = "idle" /\ session = epoch - 1)
  /\ [](fit_pc = "callback" =>
          /\ step = steps_per_epoch
          /\ session = IF pc = "idle" THEN epoch - 1 ELSE epoch)
  /\ [][(pc = "idle" /\ pc' # "idle") =>
          /\ session' = epoch
          /\ step = steps_per_epoch
          /\ fit_pc = "callback"]_vars
  /\ [][(step' = step + 1 \/ model' # model) =>
          /\ pc = "idle" /\ pc' = "idle"
          /\ fit_pc = "train"
          /\ session = epoch - 1]_vars

\* a fit of two epochs of two steps each has returned after two samples
C19_Witness ==
  /\ fit_pc = "done"
  /\ epochs = 2
  /\ steps_per_epoch = 2
  /\ session = 2

====
